---- MODULE Spec2Model ----
(***************************************************************************)
(* Inventory consistency of the barbershop point of sale: the relational   *)
(* schema (check constraint, after-insert trigger, row policies) and the   *)
(* two screens that write stock: NewTransaction (sales) and Inventory      *)
(* (manual movements).  Quantities are counted in whole units.             *)
(***************************************************************************)
EXTENDS Integers, Sequences, FiniteSets, TLC

\* ---------------------------------------------------------------- bounds
MaxQty == 2          \* largest quantity typed into a form
MaxMovements == 2    \* cap on inventory_movements rows
MaxTx == 2           \* cap on transactions rows
MaxItemRows == 2     \* cap on transaction_items rows
MaxLines == 2        \* cap on the lines of one submission
InitialStock == 1    \* stock of the second item of the shop

\* ------------------------------------------------------------- universes
Users == {"u1", "u2"}
ItemIds == {"i1", "i2"}
ServiceIds == {"s1"}
BarberIds == {"b1", "b2"}
Skus == {"", "k1"}
Prices == {2}
ServicePrice == 2
NULL == "NULL"
\* a number column or form field that may hold no number: <<>> or <<n>>
NoNumber == <<>>
Num(n) == <<n>>
\* newItem.min_quantity: parseFloat of the field, null once it is emptied
MinQuantities == {NoNumber, Num(0), Num(1)}
Faults == {"none", "decrement", "movement"}
\* the users has_role(.., 'admin') holds for
Admins == {"u1"}

VARIABLES
  services,             \* public.services: id -> [active]
  barbers,              \* public.barbers: id -> [active]
  transactions,         \* sequence of rows; the id of a row is its index
  transaction_items,    \* sequence of rows
  inventory_items,      \* id -> [quantity, sku, min_quantity]
  inventory_movements,  \* sequence of rows
  initial_quantity,     \* id -> quantity the item was created with
  products,             \* NewTransaction: per user, the loaded product ids
  submit_pc,            \* NewTransaction.handleSubmit: per user position
  submit_tx,            \* per user: id and lines of the pending submission
  loading,              \* NewTransaction: per user, the loading flag
  stmt,                 \* per user: the INSERT statement in progress, with
                        \* the writes it has not committed yet
  row_lock,             \* inventory item id -> user whose statement holds
                        \* the row's lock, or NULL
  items,                \* Inventory: per user, loaded id -> quantity
  lowStockItems,        \* Inventory: per user, the ids the screen marks
                        \* "Estoque baixo!"
  selectedItem,         \* Inventory: per user, <<>> or <<[id, quantity]>>
  move_pc,              \* Inventory.handleMovement: per user position
  move_req,             \* per user: the movement being written
  load_pending,         \* Inventory: per user, loadItems() in flight
  update_failed,        \* history: some quantity update failed after its
                        \* movement row was written
  last                  \* the last request and the response it got

vars == <<services, barbers, transactions, transaction_items, inventory_items,
          inventory_movements, initial_quantity, products, submit_pc,
          submit_tx, loading, stmt, row_lock, items, lowStockItems, selectedItem, move_pc, move_req,
          load_pending, update_failed, last>>

db_vars == <<services, barbers, transactions, transaction_items, inventory_items,
             inventory_movements, initial_quantity>>
sale_vars == <<products, submit_pc, submit_tx, loading, stmt, row_lock>>
inv_vars == <<items, lowStockItems, selectedItem, move_pc, move_req, load_pending,
             update_failed>>

\* --------------------------------------------------------------- helpers
NoMove == [item_id |-> NULL, type |-> "in", quantity |-> 0, newQuantity |-> 0]
Resp(op, result, fault, mv) ==
  [op |-> op, result |-> result, fault |-> fault, mv |-> mv]
\* a step that sends no write request
NoRequest == Resp("none", "ok", "none", NoMove)
\* no statement in progress: k rows done, own rows, movements and quantities
\* what is left at the id of a deleted transactions row
DeletedTx == [created_by |-> NULL, total |-> 0]
NoStmt == [k |-> 0, items |-> <<>>, mov |-> <<>>, inv |-> <<>>]

\* 'Venda automatica - Transaction ID: ' || NEW.transaction_id
SaleNote(tid) == <<"Venda automatica - Transaction ID: ", ToString(tid)>>

\* ------------------------------------------------- transaction_items DDL
check_item_type_service_unpaired(r) ==
  \/ (r.type = "SERVICE" /\ r.service_id # NULL)
  \/ (r.type = "PRODUCT" /\ r.inventory_item_id # NULL /\ r.service_id = NULL)

\* a constraint that also wants a quantity above zero
check_item_type_positive_quantity(r) ==
  /\ r.quantity > 0
  /\ \/ (r.type = "SERVICE" /\ r.service_id # NULL /\ r.inventory_item_id = NULL)
     \/ (r.type = "PRODUCT" /\ r.inventory_item_id # NULL /\ r.service_id = NULL)

check_item_type(r) ==
  \/ (r.type = "SERVICE" /\ r.service_id # NULL /\ r.inventory_item_id = NULL)
  \/ (r.type = "PRODUCT" /\ r.inventory_item_id # NULL /\ r.service_id = NULL)

\* the foreign keys of a transaction_items row
item_foreign_keys(db, r) ==
  /\ r.transaction_id \in 1..Len(db.tx)
  /\ db.tx[r.transaction_id] # DeletedTx
  /\ r.service_id # NULL => r.service_id \in DOMAIN db.services
  /\ r.inventory_item_id # NULL => r.inventory_item_id \in DOMAIN db.inv

\* (SELECT created_by FROM transactions WHERE id = NEW.transaction_id)
transaction_creator(db, tid) ==
  IF tid \in 1..Len(db.tx) THEN db.tx[tid].created_by ELSE NULL

\* IF NEW.type = 'PRODUCT' AND NEW.inventory_item_id IS NOT NULL
trigger_fires_for_every_row(new_row) == TRUE

trigger_fires(new_row) ==
  new_row.type = "PRODUCT" /\ new_row.inventory_item_id # NULL

\* UPDATE inventory_items SET quantity = quantity - NEW.quantity WHERE id = ..
decrement_one_unit(inv, id, qty) ==
  IF id \in DOMAIN inv THEN [inv EXCEPT ![id].quantity = @ - 1] ELSE inv

decrement_stock(inv, id, qty) ==
  IF id \in DOMAIN inv THEN [inv EXCEPT ![id].quantity = @ - qty] ELSE inv

\* the trigger function, run on the statement's working state db for row
\* new_row; fault names the write of it that the backend fails, if any
update_inventory_unless_short(db, new_row, fault) ==
  IF trigger_fires(new_row)
  THEN
    LET id == new_row.inventory_item_id
        creator == transaction_creator(db, new_row.transaction_id)
        short == IF id \in DOMAIN db.inv
                 THEN db.inv[id].quantity - new_row.quantity < 0 ELSE TRUE
    IN  IF fault # "none" \/ short \/ creator = NULL
        THEN [db EXCEPT !.err = "trigger_error"]
        ELSE [db EXCEPT
                !.inv = decrement_stock(db.inv, id, new_row.quantity),
                !.mov = Append(db.mov,
                          [item_id |-> id, type |-> "out",
                           quantity |-> new_row.quantity,
                           created_by |-> creator,
                           notes |-> SaleNote(new_row.transaction_id)])]
  ELSE db

update_inventory_on_product_sale(db, new_row, fault) ==
  IF trigger_fires(new_row)
  THEN
    LET id == new_row.inventory_item_id
        creator == transaction_creator(db, new_row.transaction_id)
        inv1 == decrement_stock(db.inv, id, new_row.quantity)
    IN  IF fault = "decrement"
        THEN [db EXCEPT !.err = "trigger_error"]
        ELSE IF fault = "movement" \/ id \notin DOMAIN db.inv \/ creator = NULL
        THEN [db EXCEPT !.inv = inv1, !.err = "trigger_error"]
        ELSE [db EXCEPT
                !.inv = inv1,
                !.mov = Append(db.mov,
                          [item_id |-> id, type |-> "out",
                           quantity |-> new_row.quantity,
                           created_by |-> creator,
                           notes |-> SaleNote(new_row.transaction_id)])]
  ELSE db

\* a table without the trigger
insert_row_without_trigger(db, new_row, fault) ==
  IF ~check_item_type(new_row) THEN [db EXCEPT !.err = "check_violation"]
  ELSE IF ~item_foreign_keys(db, new_row) THEN [db EXCEPT !.err = "fk_violation"]
  ELSE [db EXCEPT !.items = Append(db.items, new_row)]

\* AFTER INSERT ON transaction_items FOR EACH ROW: the row is checked,
\* stored, and the trigger runs inside the same statement
insert_row(db, new_row, fault) ==
  IF ~check_item_type(new_row) THEN [db EXCEPT !.err = "check_violation"]
  ELSE IF ~item_foreign_keys(db, new_row) THEN [db EXCEPT !.err = "fk_violation"]
  ELSE update_inventory_on_product_sale(
         [db EXCEPT !.items = Append(db.items, new_row)], new_row, fault)

RECURSIVE insert_rows(_, _, _, _, _)
insert_rows(db, rows, k, faultAt, fault) ==
  IF k > Len(rows) \/ db.err # "ok" THEN db
  ELSE insert_rows(insert_row(db, rows[k], IF k = faultAt THEN fault ELSE "none"),
                   rows, k + 1, faultAt, fault)

\* a statement that keeps what it wrote before the error
end_statement_no_rollback(before, after) == after

\* a statement that rolls back on trigger errors only
end_statement_keeps_checked_rows(before, after) ==
  IF after.err \in {"ok", "check_violation"} THEN after
  ELSE [before EXCEPT !.err = after.err]

\* the statement commits as a whole or not at all
end_statement(before, after) ==
  IF after.err = "ok" THEN after ELSE [before EXCEPT !.err = after.err]

CurrentDb ==
  [tx |-> transactions, items |-> transaction_items, inv |-> inventory_items,
   mov |-> inventory_movements, services |-> services, err |-> "ok"]

\* a trigger that records the caller of the insert as the actor
InsertTransactionItems_actor_is_caller(by, rows, faultAt, fault) ==
  LET out == end_statement(CurrentDb,
                           insert_rows(CurrentDb, rows, 1, faultAt, fault))
  IN  /\ transaction_items' = out.items
      /\ inventory_items' = out.inv
      /\ inventory_movements' =
           [k \in 1..Len(out.mov) |->
              IF k <= Len(inventory_movements) THEN out.mov[k]
              ELSE [out.mov[k] EXCEPT !.created_by = by]]
      /\ last' = Resp("insert_items", out.err, fault, [by |-> by])
      /\ UNCHANGED <<services, barbers, transactions, initial_quantity>>

\* INSERT INTO transaction_items VALUES rows, issued by user by
InsertTransactionItems(by, rows, faultAt, fault) ==
  LET out == end_statement(CurrentDb,
                           insert_rows(CurrentDb, rows, 1, faultAt, fault))
  IN  /\ transaction_items' = out.items
      /\ inventory_items' = out.inv
      /\ inventory_movements' = out.mov
      /\ last' = Resp("insert_items", out.err, fault, [by |-> by])
      /\ UNCHANGED <<services, barbers, transactions, initial_quantity>>

\* rows and movements already promised to submissions in flight
RECURSIVE ProductLines(_, _)
ProductLines(lines, k) ==
  IF k > Len(lines) THEN 0
  ELSE (IF lines[k].type = "PRODUCT" THEN 1 ELSE 0) + ProductLines(lines, k + 1)

RECURSIVE PendingLines(_)
PendingLines(U) ==
  IF U = {} THEN 0
  ELSE LET u == CHOOSE x \in U : TRUE
       IN  (IF submit_pc[u] = "items" THEN Len(submit_tx[u].lines) ELSE 0)
           + PendingLines(U \ {u})

RECURSIVE PendingProducts(_)
PendingProducts(U) ==
  IF U = {} THEN 0
  ELSE LET u == CHOOSE x \in U : TRUE
       IN  (IF submit_pc[u] = "items"
            THEN ProductLines(submit_tx[u].lines, 1) ELSE 0)
           + PendingProducts(U \ {u})

RoomForRows(lines) ==
  /\ Len(transaction_items) + PendingLines(Users) + Len(lines) <= MaxItemRows
  /\ Len(inventory_movements) + PendingProducts(Users)
       + ProductLines(lines, 1) <= MaxMovements

\* ------------------------------------------------------- direct API call
ItemRow(tid, type, sid, iid, price, qty, commission) ==
  [transaction_id |-> tid, type |-> type, service_id |-> sid,
   inventory_item_id |-> iid, price |-> price, quantity |-> qty,
   commission |-> commission]

\* policy "Authenticated users can insert transaction items" WITH CHECK
\* (true): any signed-in user may send any row
ApiInsertTransactionItem(by) ==
  /\ \E tid \in 1..MaxTx, type \in {"SERVICE", "PRODUCT"},
        sid \in ServiceIds \cup {NULL}, iid \in ItemIds \cup {NULL},
        qty \in {1, MaxQty} :
       LET row == ItemRow(tid, type, sid, iid, ServicePrice, qty,
                          IF type = "SERVICE" THEN 0 ELSE 5)
       IN  /\ RoomForRows(<<row>>)
           /\ InsertTransactionItems(by, <<row>>, 1, "none")
  /\ UNCHANGED <<sale_vars, inv_vars>>

\* the same policy, one INSERT with two rows: a PRODUCT row followed by any
\* row
ApiInsertTransactionItems(by) ==
  /\ \E tid \in 1..MaxTx, first \in ItemIds, type \in {"SERVICE", "PRODUCT"},
        sid \in ServiceIds \cup {NULL}, iid \in ItemIds \cup {NULL} :
       LET rows == <<ItemRow(tid, "PRODUCT", NULL, first, ServicePrice, 1, 5),
                     ItemRow(tid, type, sid, iid, ServicePrice, 1,
                             IF type = "SERVICE" THEN 0 ELSE 5)>>
       IN  /\ RoomForRows(rows)
           /\ InsertTransactionItems(by, rows, 1, "none")
  /\ UNCHANGED <<sale_vars, inv_vars>>

\* the same policy, with the row's numbers free: price, quantity and
\* commission are columns without a constraint of their own (price and
\* commission take the same value here)
FieldValues == {0 - 1, 0, 2}

ApiInsertAnyItem(by) ==
  /\ \E tid \in 1..MaxTx, type \in {"SERVICE", "PRODUCT"},
        sid \in ServiceIds \cup {NULL}, iid \in ItemIds \cup {NULL},
        money \in FieldValues, qty \in FieldValues :
       LET row == ItemRow(tid, type, sid, iid, money, qty, money)
           out == end_statement(CurrentDb,
                                insert_rows(CurrentDb, <<row>>, 1, 1, "none"))
       IN  /\ RoomForRows(<<row>>)
           /\ transaction_items' = out.items
           /\ inventory_items' = out.inv
           /\ inventory_movements' = out.mov
           /\ last' = Resp("api_insert_item", out.err, "none", row)
  /\ UNCHANGED <<services, barbers, transactions, initial_quantity, sale_vars, inv_vars>>

\* ------------------------------------------------------------ deletions
\* transaction_items.transaction_id ... ON DELETE CASCADE
on_delete_keep_items(rows, tid) == rows

on_delete_cascade_items(rows, tid) ==
  LET Other(r) == r.transaction_id # tid IN SelectSeq(rows, Other)

\* inventory_movements.item_id ... ON DELETE CASCADE
on_delete_keep_movements(mov, id) == mov

on_delete_cascade_movements(mov, id) ==
  LET Other(m) == m.item_id # id IN SelectSeq(mov, Other)

\* policy "Admins can delete transactions"
DeleteTransaction(by) ==
  /\ \E tid \in 1..Len(transactions) :
       /\ transactions[tid] # DeletedTx
       /\ IF by \in Admins
          THEN /\ transactions' = [transactions EXCEPT ![tid] = DeletedTx]
               /\ transaction_items' =
                    on_delete_cascade_items(transaction_items, tid)
               /\ last' = Resp("delete_transaction", "ok", "none", NoMove)
          ELSE /\ last' = Resp("delete_transaction", "no_rows", "none", NoMove)
               /\ UNCHANGED <<transactions, transaction_items>>
  /\ UNCHANGED <<services, barbers, inventory_items, inventory_movements,
                 initial_quantity, sale_vars, inv_vars>>

\* policy "Authenticated users can manage inventory items" FOR ALL
\* USING (true): any signed-in user may delete an item; the delete is refused
\* while a transaction_items row references the item (inventory_item_id has
\* no ON DELETE action) and takes the item's movement rows with it
DeleteInventoryItem(by) ==
  /\ \E id \in DOMAIN inventory_items :
       IF \E k \in 1..Len(transaction_items) :
            transaction_items[k].inventory_item_id = id
       THEN /\ last' = Resp("delete_inventory_item", "fk_violation", "none",
                            NoMove)
            /\ UNCHANGED <<inventory_items, inventory_movements,
                           initial_quantity>>
       ELSE /\ inventory_items' =
                 [i \in DOMAIN inventory_items \ {id} |-> inventory_items[i]]
            /\ initial_quantity' =
                 [i \in DOMAIN inventory_items \ {id} |-> initial_quantity[i]]
            /\ inventory_movements' =
                 on_delete_cascade_movements(inventory_movements, id)
            /\ last' = Resp("delete_inventory_item", "ok", "none", NoMove)
  /\ UNCHANGED <<services, barbers, transactions, transaction_items, sale_vars,
                 inv_vars>>

\* inventory_movements has row level security and policies for SELECT and
\* INSERT only: an UPDATE or DELETE sent to it touches no row
ApiChangeInventoryMovement(by) ==
  /\ Len(inventory_movements) > 0
  /\ last' = Resp("change_movement", "no_rows", "none", NoMove)
  /\ UNCHANGED <<db_vars, sale_vars, inv_vars>>

\* ------------------------------------------------- Inventory.handleAddItem
handleAddItem(by) ==
  \E id \in ItemIds \ DOMAIN inventory_items, sku \in Skus,
     quantity \in {Num(n) : n \in 0..MaxQty} \cup {NoNumber},
     min \in MinQuantities :
    LET req == [by |-> by, sku |-> sku, quantity |-> quantity]
        qty == quantity[1]
        result == IF quantity = NoNumber THEN "not_null_violation"
                  ELSE IF \E j \in DOMAIN inventory_items :
                            inventory_items[j].sku = sku
                  THEN "unique_violation"
                  ELSE "ok"
    IN  IF result # "ok"
        THEN /\ last' = Resp("insert_inventory_item", result, "none", req)
             /\ UNCHANGED <<db_vars, sale_vars, inv_vars>>
        ELSE /\ inventory_items' =
                  [j \in DOMAIN inventory_items \cup {id} |->
                     IF j = id
                     THEN [quantity |-> qty, sku |-> sku,
                           min_quantity |-> min]
                     ELSE inventory_items[j]]
             /\ initial_quantity' =
                  [j \in DOMAIN inventory_items \cup {id} |->
                     IF j = id THEN qty ELSE initial_quantity[j]]
             /\ load_pending' = [load_pending EXCEPT ![by] = TRUE]
             /\ last' = Resp("insert_inventory_item", "ok", "none", req)
             /\ UNCHANGED <<services, barbers, transactions,
                            transaction_items, inventory_movements,
                            sale_vars, items, lowStockItems, selectedItem,
                            move_pc, move_req, update_failed>>

\* ------------------------------------------- barbers and services, RLS
\* public.user_roles: no policy lets an API caller write it
user_roles ==
  {[user_id |-> u, role |-> IF u \in Admins THEN "admin" ELSE "operator"] :
     u \in Users}

\* a check that is content with any role
has_role_any_role(_user_id, _role) ==
  \E r \in user_roles : r.user_id = _user_id

has_role(_user_id, _role) ==
  \E r \in user_roles : r.user_id = _user_id /\ r.role = _role

CatalogTables == {"barbers", "services"}
CatalogIds(t) == IF t = "barbers" THEN BarberIds ELSE ServiceIds
CatalogRows(t) == IF t = "barbers" THEN barbers ELSE services
CatalogReq(by, t, id) == [by |-> by, table |-> t, id |-> id]

\* whether an ON DELETE RESTRICT reference refuses the delete of the row:
\* transaction_items.service_id, transactions.barber_id. The transactions
\* rows here carry no barber_id, so any of them may refer to the barber.
restricted(t, id) ==
  IF t = "services"
  THEN {\E k \in 1..Len(transaction_items) :
          transaction_items[k].service_id = id}
  ELSE IF \E k \in 1..Len(transactions) : transactions[k] # DeletedTx
       THEN BOOLEAN ELSE {FALSE}

SetCatalog(t, rows) ==
  /\ barbers' = IF t = "barbers" THEN rows ELSE barbers
  /\ services' = IF t = "services" THEN rows ELSE services

\* supabase.from(t).insert(..): policy "Admins can insert .."
InsertCatalogRow(by) ==
  /\ \E t \in CatalogTables :
       \E id \in CatalogIds(t) \ DOMAIN CatalogRows(t) :
         LET allowed == has_role(by, "admin")
             row == id :> [active |-> TRUE]
         IN  /\ SetCatalog(t, IF allowed THEN CatalogRows(t) @@ row
                              ELSE CatalogRows(t))
             /\ last' = Resp("insert_catalog",
                             IF allowed THEN "ok" ELSE "rls_violation",
                             "none", CatalogReq(by, t, id))
  /\ UNCHANGED <<transactions, transaction_items, inventory_items,
                 inventory_movements, initial_quantity, sale_vars, inv_vars>>

\* supabase.from(t).update({ active }).eq('id', id): policy "Admins can
\* update ..": the rows USING leaves out are not touched, without an error
UpdateCatalogRow(by) ==
  /\ \E t \in CatalogTables, active \in BOOLEAN :
       \E id \in CatalogIds(t) :
         LET hit == id \in DOMAIN CatalogRows(t) /\ has_role(by, "admin")
         IN  /\ SetCatalog(t, IF hit
                              THEN [CatalogRows(t) EXCEPT ![id].active = active]
                              ELSE CatalogRows(t))
             /\ last' = Resp("update_catalog", "ok", "none",
                             CatalogReq(by, t, id))
  /\ UNCHANGED <<transactions, transaction_items, inventory_items,
                 inventory_movements, initial_quantity, sale_vars, inv_vars>>

\* DELETE FROM t WHERE id = ..: policy "Admins can delete ..", and the
\* ON DELETE RESTRICT references to the row
DeleteCatalogRow(by) ==
  /\ \E t \in CatalogTables :
       \E id \in CatalogIds(t) :
         LET hit == id \in DOMAIN CatalogRows(t) /\ has_role(by, "admin")
         IN  \E refused \in (IF hit THEN restricted(t, id) ELSE {FALSE}) :
               /\ SetCatalog(t, IF hit /\ ~refused
                                THEN [i \in DOMAIN CatalogRows(t) \ {id} |->
                                        CatalogRows(t)[i]]
                                ELSE CatalogRows(t))
               /\ last' = Resp("delete_catalog",
                               IF refused THEN "fk_violation" ELSE "ok",
                               "none", CatalogReq(by, t, id))
  /\ UNCHANGED <<transactions, transaction_items, inventory_items,
                 inventory_movements, initial_quantity, sale_vars, inv_vars>>

\* supabase.from(t).select('*'): policy "Authenticated users can view .."
SelectCatalog(by) ==
  /\ \E t \in CatalogTables :
       last' = Resp("select_catalog", "ok", "none",
                    [by |-> by, table |-> t, rows |-> DOMAIN CatalogRows(t)])
  /\ UNCHANGED <<db_vars, sale_vars, inv_vars>>

\* ------------------------------------------------ NewTransaction screen
\* loadData: inventory_items ... .gt('quantity', 0)
loadData(u) ==
  /\ submit_pc[u] = "idle"
  /\ products' = [products EXCEPT
                    ![u] = {i \in DOMAIN inventory_items :
                              inventory_items[i].quantity > 0}]
  /\ products'[u] # products[u]
  /\ last' = NoRequest
  /\ UNCHANGED <<db_vars, submit_pc, submit_tx, loading, stmt, row_lock,
                 inv_vars>>

\* the lines addItem / updateItem can put in the form
FormLine(type, sid, pid, qty, price) ==
  [type |-> type, serviceId |-> sid, productId |-> pid, quantity |-> qty,
   price |-> price, commission |-> IF type = "SERVICE" THEN 0 ELSE 5]

FormLines(u) ==
  {FormLine("SERVICE", sid, NULL, qty, ServicePrice) :
     sid \in {s \in DOMAIN services : services[s].active},
     qty \in 1..MaxQty}
  \cup {FormLine("PRODUCT", NULL, pid, qty, price) :
          pid \in products[u], qty \in 1..MaxQty, price \in Prices}

RECURSIVE Forms(_, _)
Forms(u, n) ==
  IF n = 0 THEN {<<>>}
  ELSE LET shorter == Forms(u, n - 1)
       IN  shorter \cup {Append(f, l) : f \in {g \in shorter : Len(g) = n - 1},
                                        l \in FormLines(u)}

\* a total that adds each line's price once, whatever its quantity
RECURSIVE sumOfPricesFrom(_, _)
sumOfPricesFrom(lines, k) ==
  IF k > Len(lines) THEN 0
  ELSE lines[k].price + sumOfPricesFrom(lines, k + 1)

calculateTotal_price_only(lines) == sumOfPricesFrom(lines, 1)

\* items.reduce((sum, item) => sum + (item.price * item.quantity), 0);
\* amounts are whole cents, as the price input (step 0.01) and
\* services.price (DECIMAL(10,2)) give them
RECURSIVE calculateTotalFrom(_, _)
calculateTotalFrom(lines, k) ==
  IF k > Len(lines) THEN 0
  ELSE lines[k].price * lines[k].quantity + calculateTotalFrom(lines, k + 1)

calculateTotal(lines) == calculateTotalFrom(lines, 1)

itemsToInsert(tid, lines) ==
  [k \in 1..Len(lines) |->
     ItemRow(tid, lines[k].type,
             IF lines[k].type = "SERVICE" THEN lines[k].serviceId ELSE NULL,
             IF lines[k].type = "PRODUCT" THEN lines[k].productId ELSE NULL,
             lines[k].price, lines[k].quantity, lines[k].commission)]

\* handleSubmit up to the answer of the transactions insert
handleSubmit(u) ==
  /\ submit_pc[u] = "idle"
  /\ ~loading[u]
  /\ Len(transactions) < MaxTx
  /\ \E barber \in BOOLEAN, payment \in BOOLEAN, lines \in Forms(u, MaxLines),
        ok \in BOOLEAN :
       LET form == [by |-> u, selectedBarberId |-> barber,
                    selectedPaymentMethodId |-> payment,
                    items |-> Len(lines)]
       IN
       /\ RoomForRows(lines)
       /\ IF ~barber \/ ~payment \/ Len(lines) = 0
          THEN /\ ok
               /\ last' = Resp("submit", "validation", "none", form)
               /\ UNCHANGED <<db_vars, sale_vars, inv_vars>>
          ELSE IF ~ok
          THEN /\ last' = Resp("insert_transaction", "backend_error", "none",
                               form)
               /\ UNCHANGED <<db_vars, sale_vars, inv_vars>>
          ELSE /\ transactions' =
                    Append(transactions,
                           [created_by |-> u, total |-> calculateTotal(lines)])
               /\ submit_pc' = [submit_pc EXCEPT ![u] = "items"]
               /\ loading' = [loading EXCEPT ![u] = TRUE]
               /\ submit_tx' = [submit_tx EXCEPT
                                  ![u] = [id |-> Len(transactions) + 1,
                                          lines |-> lines]]
               /\ last' = Resp("insert_transaction", "ok", "none", form)
               /\ UNCHANGED <<services, barbers, transaction_items,
                              inventory_items, inventory_movements,
                              initial_quantity, products, stmt, row_lock,
                              inv_vars>>

\* a submission that sends one insert per line: the lines before a
\* rejected line stay
handleSubmitItems_line_by_line(u) ==
  /\ submit_pc[u] = "items"
  /\ \E faultAt \in 1..Len(submit_tx[u].lines), fault \in Faults :
       LET rows == itemsToInsert(submit_tx[u].id, submit_tx[u].lines)
           all == end_statement(CurrentDb,
                                insert_rows(CurrentDb, rows, 1, faultAt, fault))
           kept == insert_rows(CurrentDb, SubSeq(rows, 1, faultAt - 1), 1, 1,
                               "none")
           out == IF all.err = "ok" THEN all ELSE [kept EXCEPT !.err = all.err]
       IN  /\ transaction_items' = out.items
           /\ inventory_items' = out.inv
           /\ inventory_movements' = out.mov
           /\ last' = Resp("insert_items", out.err, fault, [by |-> u])
  /\ submit_pc' = [submit_pc EXCEPT ![u] = "idle"]
  /\ loading' = [loading EXCEPT ![u] = FALSE]
  /\ submit_tx' = [submit_tx EXCEPT ![u] = [id |-> 0, lines |-> <<>>]]
  /\ UNCHANGED <<services, barbers, transactions, initial_quantity, products,
                 stmt, row_lock, inv_vars>>

\* a submission without the finally block: setLoading(false) only after a
\* successful insert
handleSubmitItems_without_finally(u) ==
  /\ submit_pc[u] = "items"
  /\ \E faultAt \in 1..Len(submit_tx[u].lines), fault \in Faults :
       InsertTransactionItems(
         u, itemsToInsert(submit_tx[u].id, submit_tx[u].lines), faultAt, fault)
  /\ submit_pc' = [submit_pc EXCEPT ![u] = "idle"]
  /\ loading' = [loading EXCEPT ![u] = last'.result # "ok"]
  /\ submit_tx' = [submit_tx EXCEPT ![u] = [id |-> 0, lines |-> <<>>]]
  /\ UNCHANGED <<products, stmt, row_lock, inv_vars>>

\* handleSubmit from the transaction_items insert to the finally block
handleSubmitItems(u) ==
  /\ submit_pc[u] = "items"
  /\ \E faultAt \in 1..Len(submit_tx[u].lines), fault \in Faults :
       InsertTransactionItems(
         u, itemsToInsert(submit_tx[u].id, submit_tx[u].lines), faultAt, fault)
  /\ submit_pc' = [submit_pc EXCEPT ![u] = "idle"]
  /\ loading' = [loading EXCEPT ![u] = FALSE]
  /\ submit_tx' = [submit_tx EXCEPT ![u] = [id |-> 0, lines |-> <<>>]]
  /\ UNCHANGED <<products, stmt, row_lock, inv_vars>>

\* ------------------------------------- the INSERT statement, row by row
\* UPDATE inventory_items ... WHERE id = NEW.inventory_item_id locks the
\* row until the statement's transaction ends; another statement's UPDATE
\* of the same row waits for it
row_available_unlocked(lock, id, u) == TRUE

row_available(lock, id, u) == lock[id] \in {NULL, u}

\* what user u's statement reads: the committed rows and its own writes
StatementDb(u) ==
  [tx |-> transactions,
   items |-> transaction_items \o stmt[u].items,
   inv |-> [i \in DOMAIN inventory_items |->
              IF i \in DOMAIN stmt[u].inv
              THEN [inventory_items[i] EXCEPT !.quantity = stmt[u].inv[i]]
              ELSE inventory_items[i]],
   mov |-> inventory_movements \o stmt[u].mov,
   services |-> services, err |-> "ok"]

ReleaseLocks(u) ==
  [i \in ItemIds |-> IF row_lock[i] = u THEN NULL ELSE row_lock[i]]

\* the statement of handleSubmit's transaction_items insert takes its next
\* row: constraint, foreign keys, the row, the trigger.  A row whose item is
\* locked by another statement waits, or the statement is aborted (lock
\* timeout, deadlock); an error ends the statement and discards its writes.
insertItemRow(u) ==
  /\ submit_pc[u] = "items"
  /\ stmt[u].k < Len(submit_tx[u].lines)
  /\ LET rows == itemsToInsert(submit_tx[u].id, submit_tx[u].lines)
         row == rows[stmt[u].k + 1]
         id == row.inventory_item_id
         locks == trigger_fires(row) /\ id \in DOMAIN inventory_items
         free == IF locks THEN row_available(row_lock, id, u) ELSE TRUE
         view == StatementDb(u)
     IN  \E fault \in Faults :
           /\ free \/ fault = "decrement"
           /\ LET out == insert_row(view, row, fault)
              IN  IF out.err # "ok"
                  THEN /\ stmt' = [stmt EXCEPT ![u] = NoStmt]
                       /\ row_lock' = ReleaseLocks(u)
                       /\ submit_pc' = [submit_pc EXCEPT ![u] = "idle"]
                       /\ loading' = [loading EXCEPT ![u] = FALSE]
                       /\ submit_tx' = [submit_tx EXCEPT
                                          ![u] = [id |-> 0, lines |-> <<>>]]
                       /\ last' = Resp("insert_items", out.err, fault, NoMove)
                       /\ UNCHANGED <<db_vars, products, inv_vars>>
                  ELSE /\ stmt' =
                            [stmt EXCEPT
                               ![u] = [k |-> stmt[u].k + 1,
                                       items |-> SubSeq(out.items,
                                                   Len(transaction_items) + 1,
                                                   Len(out.items)),
                                       mov |-> SubSeq(out.mov,
                                                 Len(inventory_movements) + 1,
                                                 Len(out.mov)),
                                       inv |-> IF locks
                                               THEN [i \in DOMAIN stmt[u].inv
                                                            \cup {id} |->
                                                       out.inv[i].quantity]
                                               ELSE stmt[u].inv]]
                       /\ row_lock' = IF locks
                                      THEN [row_lock EXCEPT ![id] = u]
                                      ELSE row_lock
                       /\ last' = NoRequest
                       /\ UNCHANGED <<db_vars, products, submit_pc, submit_tx, loading,
                                      inv_vars>>

\* every row is in: the statement commits its rows, its decrements and its
\* movement rows together and handleSubmit reaches its finally block
commitInsertItems(u) ==
  /\ submit_pc[u] = "items"
  /\ stmt[u].k > 0
  /\ stmt[u].k = Len(submit_tx[u].lines)
  /\ transaction_items' = StatementDb(u).items
  /\ inventory_items' = StatementDb(u).inv
  /\ inventory_movements' = StatementDb(u).mov
  /\ stmt' = [stmt EXCEPT ![u] = NoStmt]
  /\ row_lock' = ReleaseLocks(u)
  /\ submit_pc' = [submit_pc EXCEPT ![u] = "idle"]
  /\ loading' = [loading EXCEPT ![u] = FALSE]
  /\ submit_tx' = [submit_tx EXCEPT ![u] = [id |-> 0, lines |-> <<>>]]
  /\ last' = Resp("insert_items", "ok", "none", NoMove)
  /\ UNCHANGED <<services, barbers, transactions, initial_quantity, products, inv_vars>>

\* ------------------------------------------------------ Inventory screen
\* the value of a JavaScript expression used as a condition
Truthy(v) == v # NoNumber /\ v[1] # 0

\* Number(v) of a number or null
Number(v) == IF v = NoNumber THEN 0 ELSE v[1]

\* item => item.min_quantity && item.quantity <= item.min_quantity
lowStock(item) ==
  Truthy(item.min_quantity) /\ item.quantity <= item.min_quantity[1]

\* useEffect(() => loadItems(), []) of a newly opened Inventory screen
openInventory(u) ==
  /\ move_pc[u] = "idle"
  /\ ~load_pending[u]
  /\ items' = [items EXCEPT ![u] = <<>>]
  /\ lowStockItems' = [lowStockItems EXCEPT ![u] = {}]
  /\ selectedItem' = [selectedItem EXCEPT ![u] = <<>>]
  /\ load_pending' = [load_pending EXCEPT ![u] = TRUE]
  /\ last' = NoRequest
  /\ UNCHANGED <<db_vars, sale_vars, move_pc, move_req, update_failed>>

\* the answer to loadItems arrives
loadItems(u) ==
  /\ load_pending[u]
  /\ load_pending' = [load_pending EXCEPT ![u] = FALSE]
  /\ \E ok \in BOOLEAN :
       /\ items' = IF ok
                   THEN [items EXCEPT
                           ![u] = [i \in DOMAIN inventory_items |->
                                     inventory_items[i].quantity]]
                   ELSE items
       /\ lowStockItems' =
            IF ok
            THEN [lowStockItems EXCEPT
                    ![u] = {i \in DOMAIN inventory_items :
                              lowStock(inventory_items[i])}]
            ELSE lowStockItems
       /\ last' = NoRequest
  /\ UNCHANGED <<db_vars, sale_vars, selectedItem, move_pc, move_req,
                 update_failed>>

\* onClick of "Registrar Movimento": setSelectedItem(item)
selectItem(u) ==
  /\ move_pc[u] = "idle"
  /\ \E i \in DOMAIN items[u] :
       /\ selectedItem' = [selectedItem EXCEPT
                             ![u] = <<[id |-> i, quantity |-> items[u][i]]>>]
       /\ selectedItem'[u] # selectedItem[u]
  /\ last' = NoRequest
  /\ UNCHANGED <<db_vars, sale_vars, items, lowStockItems, move_pc, move_req, load_pending,
                 update_failed>>

newQuantity(type, current, qty) ==
  IF type = "in" THEN current + qty ELSE current - qty

insufficient_never(candidate) == FALSE

insufficient(candidate) == candidate < 0

\* what handleMovement does with the form before it awaits the backend:
\* the message it shows, if any, and whether the movement insert is sent
movementOutcome_insert_before_check(sel, qty, candidate) ==
  IF sel = <<>> \/ qty <= 0 THEN [result |-> "validation", insert |-> FALSE]
  ELSE IF insufficient(candidate)
  THEN [result |-> "insufficient", insert |-> TRUE]
  ELSE [result |-> "ok", insert |-> TRUE]

movementOutcome_no_validation(sel, qty, candidate) ==
  IF insufficient(candidate)
  THEN [result |-> "insufficient", insert |-> FALSE]
  ELSE [result |-> "ok", insert |-> TRUE]

movementOutcome(sel, qty, candidate) ==
  IF sel = <<>> \/ qty <= 0 THEN [result |-> "validation", insert |-> FALSE]
  ELSE IF insufficient(candidate)
  THEN [result |-> "insufficient", insert |-> FALSE]
  ELSE [result |-> "ok", insert |-> TRUE]

\* handleMovement up to the answer of the inventory_movements insert
handleMovement(u) ==
  /\ move_pc[u] = "idle"
  /\ Len(inventory_movements) + PendingProducts(Users) < MaxMovements
  /\ \E type \in {"in", "out"}, qty \in (0 - 1)..MaxQty, ok \in BOOLEAN :
       LET sel == selectedItem[u]
           id == IF sel = <<>> THEN NULL ELSE sel[1].id
           current == IF sel = <<>> THEN 0 ELSE sel[1].quantity
           req == [item_id |-> id, type |-> type, quantity |-> qty,
                   newQuantity |-> newQuantity(type, current, qty)]
           out == movementOutcome(sel, qty, req.newQuantity)
           sent == out.insert /\ ok /\ id \in DOMAIN inventory_items
       IN  /\ out.insert \/ ok
           /\ inventory_movements' =
                IF sent
                THEN Append(inventory_movements,
                            [item_id |-> id, type |-> type, quantity |-> qty,
                             created_by |-> u, notes |-> <<"">>])
                ELSE inventory_movements
           /\ IF sent /\ out.result = "ok"
              THEN /\ move_pc' = [move_pc EXCEPT ![u] = "update"]
                   /\ move_req' = [move_req EXCEPT ![u] = req]
                   /\ last' = Resp("insert_movement", "ok", "none", req)
              ELSE /\ UNCHANGED <<move_pc, move_req>>
                   /\ last' = IF out.result # "ok"
                              THEN Resp("movement", out.result, "none", req)
                              ELSE Resp("insert_movement", "backend_error",
                                        "none", req)
           /\ UNCHANGED <<services, barbers, transactions, transaction_items,
                          inventory_items, initial_quantity, sale_vars, items, lowStockItems,
                          selectedItem, load_pending, update_failed>>

\* a quantity update that takes the movement row back when it fails
handleMovementUpdate_undo_movement(u) ==
  /\ move_pc[u] = "update"
  /\ move_pc' = [move_pc EXCEPT ![u] = "idle"]
  /\ move_req' = [move_req EXCEPT ![u] = NoMove]
  /\ \E ok \in BOOLEAN :
       IF ok
       THEN /\ inventory_items' =
                 IF move_req[u].item_id \in DOMAIN inventory_items
                 THEN [inventory_items EXCEPT
                         ![move_req[u].item_id].quantity = move_req[u].newQuantity]
                 ELSE inventory_items
            /\ selectedItem' = [selectedItem EXCEPT ![u] = <<>>]
            /\ load_pending' = [load_pending EXCEPT ![u] = TRUE]
            /\ last' = Resp("update_quantity", "ok", "none", move_req[u])
            /\ UNCHANGED <<services, barbers, transactions, transaction_items,
                           inventory_movements, initial_quantity, sale_vars,
                           items, lowStockItems, update_failed>>
       ELSE /\ update_failed' = TRUE
            /\ inventory_movements' =
                 SubSeq(inventory_movements, 1, Len(inventory_movements) - 1)
            /\ last' = Resp("update_quantity", "backend_error", "none",
                            move_req[u])
            /\ UNCHANGED <<services, barbers, transactions, transaction_items,
                           inventory_items, initial_quantity, sale_vars, items, lowStockItems,
                           selectedItem, load_pending>>

\* a quantity update that applies the movement to the stored quantity
handleMovementUpdate_relative(u) ==
  /\ move_pc[u] = "update"
  /\ move_pc' = [move_pc EXCEPT ![u] = "idle"]
  /\ move_req' = [move_req EXCEPT ![u] = NoMove]
  /\ \E ok \in BOOLEAN :
       IF ok
       THEN /\ inventory_items' =
                 IF move_req[u].item_id \in DOMAIN inventory_items
                 THEN [inventory_items EXCEPT
                         ![move_req[u].item_id].quantity =
                            newQuantity(move_req[u].type, @, move_req[u].quantity)]
                 ELSE inventory_items
            /\ selectedItem' = [selectedItem EXCEPT ![u] = <<>>]
            /\ load_pending' = [load_pending EXCEPT ![u] = TRUE]
            /\ last' = Resp("update_quantity", "ok", "none", move_req[u])
            /\ UNCHANGED <<services, barbers, transactions, transaction_items,
                           inventory_movements, initial_quantity, sale_vars,
                           items, lowStockItems, update_failed>>
       ELSE /\ update_failed' = TRUE
            /\ last' = Resp("update_quantity", "backend_error", "none",
                            move_req[u])
            /\ UNCHANGED <<db_vars, sale_vars, items, lowStockItems, selectedItem,
                           load_pending>>

\* handleMovement from the inventory_items update to its end
handleMovementUpdate(u) ==
  /\ move_pc[u] = "update"
  /\ move_pc' = [move_pc EXCEPT ![u] = "idle"]
  /\ move_req' = [move_req EXCEPT ![u] = NoMove]
  /\ \E ok \in BOOLEAN :
       IF ok
       THEN /\ inventory_items' =
                 IF move_req[u].item_id \in DOMAIN inventory_items
                 THEN [inventory_items EXCEPT
                         ![move_req[u].item_id].quantity = move_req[u].newQuantity]
                 ELSE inventory_items
            /\ selectedItem' = [selectedItem EXCEPT ![u] = <<>>]
            /\ load_pending' = [load_pending EXCEPT ![u] = TRUE]
            /\ last' = Resp("update_quantity", "ok", "none", move_req[u])
            /\ UNCHANGED <<services, barbers, transactions, transaction_items,
                           inventory_movements, initial_quantity, sale_vars,
                           items, lowStockItems, update_failed>>
       ELSE /\ update_failed' = TRUE
            /\ last' = Resp("update_quantity", "backend_error", "none",
                            move_req[u])
            /\ UNCHANGED <<db_vars, sale_vars, items, lowStockItems, selectedItem,
                           load_pending>>

\* ------------------------------------------------------------ Dashboard
\* item => Number(item.quantity) <= Number(item.min_quantity)
dashboardLowStock(item) ==
  Number(Num(item.quantity)) <= Number(item.min_quantity)

\* loadLowStockItems: the rows it keeps; there are fewer than five items
\* here, so slice(0, 5) drops none, and a failed request leaves data null
loadLowStockItems(u) ==
  /\ \E ok \in BOOLEAN :
       last' = Resp("low_stock", IF ok THEN "ok" ELSE "backend_error", "none",
                    [by |-> u,
                     lowStock |-> IF ok
                                  THEN {i \in DOMAIN inventory_items :
                                          dashboardLowStock(inventory_items[i])}
                                  ELSE {}])
  /\ UNCHANGED <<db_vars, sale_vars, inv_vars>>

\* ---------------------------------------------------------------- Init
Init ==
  /\ services = [s \in ServiceIds |-> [active |-> TRUE]]
  /\ barbers = [b \in {"b1"} |-> [active |-> TRUE]]
  /\ transactions = <<>>
  /\ transaction_items = <<>>
  /\ inventory_items = <<>>
  /\ inventory_movements = <<>>
  /\ initial_quantity = <<>>
  /\ products = [u \in Users |-> {}]
  /\ submit_pc = [u \in Users |-> "idle"]
  /\ loading = [u \in Users |-> FALSE]
  /\ submit_tx = [u \in Users |-> [id |-> 0, lines |-> <<>>]]
  /\ stmt = [u \in Users |-> NoStmt]
  /\ row_lock = [i \in ItemIds |-> NULL]
  /\ items = [u \in Users |-> <<>>]
  /\ lowStockItems = [u \in Users |-> {}]
  /\ selectedItem = [u \in Users |-> <<>>]
  /\ move_pc = [u \in Users |-> "idle"]
  /\ move_req = [u \in Users |-> NoMove]
  /\ load_pending = [u \in Users |-> TRUE]
  /\ update_failed = FALSE
  /\ last = NoRequest

\* every screen idle and about to load, nothing requested yet
ScreensInit ==
  /\ products = [u \in Users |-> {}]
  /\ submit_pc = [u \in Users |-> "idle"]
  /\ loading = [u \in Users |-> FALSE]
  /\ submit_tx = [u \in Users |-> [id |-> 0, lines |-> <<>>]]
  /\ stmt = [u \in Users |-> NoStmt]
  /\ row_lock = [i \in ItemIds |-> NULL]
  /\ items = [u \in Users |-> <<>>]
  /\ lowStockItems = [u \in Users |-> {}]
  /\ selectedItem = [u \in Users |-> <<>>]
  /\ move_pc = [u \in Users |-> "idle"]
  /\ move_req = [u \in Users |-> NoMove]
  /\ load_pending = [u \in Users |-> TRUE]
  /\ update_failed = FALSE
  /\ last = NoRequest

Stock(ids, qty) ==
  [i \in ids |-> [quantity |-> IF i = "i1" THEN qty ELSE InitialStock,
                  sku |-> i, min_quantity |-> Num(0)]]

\* a shop that stocks one item
InitStocked ==
  /\ services = [s \in ServiceIds |-> [active |-> TRUE]]
  /\ barbers = [b \in {"b1"} |-> [active |-> TRUE]]
  /\ transactions = <<>>
  /\ transaction_items = <<>>
  /\ \E qty \in 0..MaxQty :
       /\ inventory_items = Stock({"i1"}, qty)
       /\ initial_quantity = [i \in {"i1"} |-> qty]
  /\ inventory_movements = <<>>
  /\ ScreensInit

\* a shop that stocks one item, InitialStock of it
InitOneItem ==
  /\ services = [s \in ServiceIds |-> [active |-> TRUE]]
  /\ barbers = [b \in {"b1"} |-> [active |-> TRUE]]
  /\ transactions = <<>>
  /\ transaction_items = <<>>
  /\ inventory_items = Stock({"i1"}, InitialStock)
  /\ initial_quantity = [i \in {"i1"} |-> InitialStock]
  /\ inventory_movements = <<>>
  /\ ScreensInit

\* a shop that stocks two items
InitShop ==
  /\ services = [s \in ServiceIds |-> [active |-> TRUE]]
  /\ barbers = [b \in {"b1"} |-> [active |-> TRUE]]
  /\ transactions = <<>>
  /\ transaction_items = <<>>
  /\ \E qty \in 0..MaxQty :
       /\ inventory_items = Stock(ItemIds, qty)
       /\ initial_quantity = [i \in ItemIds |-> inventory_items[i].quantity]
  /\ inventory_movements = <<>>
  /\ ScreensInit

\* the sales screen, two users
NextSales ==
  \E u \in Users :
    \/ loadData(u)
    \/ handleSubmit(u)
    \/ handleSubmitItems(u)

\* one user at the sales screen, any user calling the table API
NextApi ==
  \/ loadData("u1")
  \/ handleSubmit("u1")
  \/ handleSubmitItems("u1")
  \/ \E u \in Users : ApiInsertTransactionItem(u)
  \/ \E u \in Users : ApiInsertTransactionItems(u)

\* the manual path, two users
NextManual ==
  \E u \in Users :
    \/ openInventory(u)
    \/ loadItems(u)
    \/ selectItem(u)
    \/ handleMovement(u)
    \/ handleMovementUpdate(u)

\* one user selling while another moves the same stock by hand
Next ==
  \/ loadData("u1")
  \/ handleSubmit("u1")
  \/ handleSubmitItems("u1")
  \/ openInventory("u2")
  \/ loadItems("u2")
  \/ selectItem("u2")
  \/ handleMovement("u2")
  \/ handleMovementUpdate("u2")

\* two users selling, their INSERT statements interleaved row by row
NextConcurrentSales ==
  \E u \in Users :
    \/ loadData(u)
    \/ handleSubmit(u)
    \/ insertItemRow(u)
    \/ commitInsertItems(u)

\* selling and moving stock by hand while rows are deleted
NextDelete ==
  \/ loadData("u1")
  \/ handleSubmit("u1")
  \/ handleSubmitItems("u1")
  \/ \E u \in Users : DeleteTransaction(u)
  \/ \E u \in Users : DeleteInventoryItem(u)
  \/ \E u \in Users : ApiChangeInventoryMovement(u)

\* moving stock by hand while items are deleted
NextStockAdmin ==
  \/ openInventory("u2")
  \/ loadItems("u2")
  \/ selectItem("u2")
  \/ handleMovement("u2")
  \/ handleMovementUpdate("u2")
  \/ \E u \in Users : DeleteInventoryItem(u)
  \/ \E u \in Users : ApiChangeInventoryMovement(u)

\* one user selling services, another sending rows with free numbers
NextValidator ==
  \/ handleSubmit("u1")
  \/ handleSubmitItems("u1")
  \/ ApiInsertAnyItem("u2")

\* the admin and an operator writing barbers and services, the operator
\* selling services
NextCatalog ==
  \/ \E u \in Users : InsertCatalogRow(u)
  \/ \E u \in Users : UpdateCatalogRow(u)
  \/ \E u \in Users : DeleteCatalogRow(u)
  \/ \E u \in Users : SelectCatalog(u)
  \/ handleSubmit("u2")
  \/ handleSubmitItems("u2")

\* stocking the shop from nothing, both low stock lists
NextInventory ==
  \/ \E u \in Users : handleAddItem(u)
  \/ \E u \in Users : openInventory(u)
  \/ \E u \in Users : loadItems(u)
  \/ \E u \in Users : loadLowStockItems(u)

\* one user at the sales screen
NextSubmit ==
  \/ loadData("u1")
  \/ handleSubmit("u1")
  \/ handleSubmitItems("u1")

\* one user selling the item another user moves by hand from the screen
\* they opened
NextLedger ==
  \/ loadData("u1")
  \/ handleSubmit("u1")
  \/ handleSubmitItems("u1")
  \/ loadItems("u2")
  \/ selectItem("u2")
  \/ handleMovement("u2")
  \/ handleMovementUpdate("u2")

Spec == InitStocked /\ [][Next]_vars
SpecSales == InitShop /\ [][NextSales]_vars
SpecLedger == InitOneItem /\ [][NextLedger]_vars
\* the awaited transaction_items insert settles, so the rest of handleSubmit
\* runs
SpecSubmit ==
  InitShop /\ [][NextSubmit]_vars /\ WF_vars(handleSubmitItems("u1"))
SpecApi == InitShop /\ [][NextApi]_vars
SpecManual == InitStocked /\ [][NextManual]_vars
SpecConcurrentSales == InitShop /\ [][NextConcurrentSales]_vars
SpecDelete == InitStocked /\ [][NextDelete]_vars
SpecValidator == InitShop /\ [][NextValidator]_vars
SpecCatalog == InitShop /\ [][NextCatalog]_vars
SpecInventory == Init /\ [][NextInventory]_vars
SpecStockAdmin == InitStocked /\ [][NextStockAdmin]_vars

\* ================================================================ claims
IsProduct(r) == r.type = "PRODUCT"

\* the rows a step appended to transaction_items / inventory_movements
NewItemRows ==
  SubSeq(transaction_items', Len(transaction_items) + 1, Len(transaction_items'))
NewMovementRows ==
  SubSeq(inventory_movements', Len(inventory_movements) + 1,
         Len(inventory_movements'))

\* total quantity the PRODUCT rows of rows take from item i
RECURSIVE SoldFrom(_, _, _)
SoldFrom(rows, i, k) ==
  IF k > Len(rows) THEN 0
  ELSE (IF rows[k].type = "PRODUCT" /\ rows[k].inventory_item_id = i
        THEN rows[k].quantity ELSE 0) + SoldFrom(rows, i, k + 1)
Sold(rows, i) == SoldFrom(rows, i, 1)

\* sum over the movement rows of item i, 'in' counted +, 'out' counted -
RECURSIVE SignedSumFrom(_, _, _)
SignedSumFrom(mov, i, k) ==
  IF k > Len(mov) THEN 0
  ELSE (IF mov[k].item_id # i THEN 0
        ELSE IF mov[k].type = "in" THEN mov[k].quantity
        ELSE 0 - mov[k].quantity) + SignedSumFrom(mov, i, k + 1)
SignedSum(mov, i) == SignedSumFrom(mov, i, 1)

\* the step in which user u's transaction_items insert is answered
SubmitItemsStep(u) == submit_pc[u] = "items" /\ submit_pc'[u] = "idle"
SubmittedRows(u) == itemsToInsert(submit_tx[u].id, submit_tx[u].lines)
\* the step in which user u's movement row is written
MovementInsertStep(u) == move_pc[u] = "idle" /\ move_pc'[u] = "update"
\* the step in which user u's quantity update is answered
QuantityUpdateStep(u) == move_pc[u] = "update" /\ move_pc'[u] = "idle"

\* C1: every persisted transaction_items row has exactly one of service_id
\* and inventory_item_id set, and the one that is set matches its type; no
\* insert that breaks the pairing leaves a row behind.
C1_ItemPairing ==
  \A k \in 1..Len(transaction_items) :
    LET r == transaction_items[k]
    IN  /\ (r.type = "SERVICE")
             <=> (r.service_id # NULL /\ r.inventory_item_id = NULL)
        /\ (r.type = "PRODUCT")
             <=> (r.inventory_item_id # NULL /\ r.service_id = NULL)

C1_Witness ==
  /\ last.op = "insert_items"
  /\ last.result = "check_violation"
  /\ \E k \in 1..Len(transaction_items) : transaction_items[k].type = "PRODUCT"

\* C2: a step that inserts transaction items takes from every inventory item
\* exactly the quantity of the new PRODUCT rows that reference it (S - Q for
\* the item sold, nothing for any other item) and appends one 'out' movement
\* per PRODUCT row, with that row's item, quantity and a note that contains
\* the transaction id.
C2_ProductSaleEffect ==
  [][Len(transaction_items') > Len(transaction_items) =>
       LET sold == SelectSeq(NewItemRows, IsProduct)
           moved == NewMovementRows
       IN  /\ \A i \in DOMAIN inventory_items :
                inventory_items'[i].quantity =
                  inventory_items[i].quantity - Sold(NewItemRows, i)
           /\ SubSeq(inventory_movements', 1, Len(inventory_movements))
                = inventory_movements
           /\ Len(moved) = Len(sold)
           /\ \A k \in 1..Len(sold) :
                /\ moved[k].item_id = sold[k].inventory_item_id
                /\ moved[k].type = "out"
                /\ moved[k].quantity = sold[k].quantity
                /\ \E j \in 1..Len(moved[k].notes) :
                     moved[k].notes[j] = ToString(sold[k].transaction_id)
  ]_vars

C2_Witness ==
  /\ \E k \in 1..Len(transaction_items) :
       /\ transaction_items[k].type = "PRODUCT"
       /\ transaction_items[k].inventory_item_id = "i1"
       /\ transaction_items[k].quantity = MaxQty
  /\ Len(transaction_items) = 1
  /\ inventory_items["i1"].quantity = initial_quantity["i1"] - MaxQty
  /\ inventory_items["i2"].quantity = initial_quantity["i2"]
  /\ Len(inventory_movements) = 1

\* C3: a submission whose lines are all SERVICE lines is stored and leaves
\* inventory_items and inventory_movements exactly as they were.
C3_ServiceLeavesInventory ==
  [][\A u \in Users :
       (/\ SubmitItemsStep(u)
        /\ \A k \in 1..Len(SubmittedRows(u)) :
             SubmittedRows(u)[k].type = "SERVICE")
       => /\ last'.result = "ok"
          /\ NewItemRows = SubmittedRows(u)
          /\ UNCHANGED <<inventory_items, inventory_movements>>
  ]_vars

C3_Witness ==
  /\ Len(transaction_items) = 2
  /\ \A k \in 1..Len(transaction_items) : transaction_items[k].type = "SERVICE"
  /\ inventory_movements = <<>>
  /\ \A i \in DOMAIN inventory_items :
       inventory_items[i].quantity = initial_quantity[i]

\* C4 (as claimed): an 'out' movement of Q is accepted only when Q is at most
\* the quantity stored for the item at that moment, and the accepted
\* request's update takes exactly Q from the stored quantity.
C4_OutAgainstStoredQuantity ==
  [][\A u \in Users :
       /\ (MovementInsertStep(u) /\ move_req'[u].type = "out")
            => move_req'[u].quantity
                 <= inventory_items[move_req'[u].item_id].quantity
       /\ (QuantityUpdateStep(u) /\ last'.result = "ok"
             /\ move_req[u].type = "out")
            => inventory_items'[move_req[u].item_id].quantity =
                 inventory_items[move_req[u].item_id].quantity
                   - move_req[u].quantity
  ]_vars

\* C5 (as claimed): an 'in' movement is never turned away for stock, and its
\* update adds exactly Q to the quantity stored for the item.
C5_InAddsToStoredQuantity ==
  [][/\ last'.result = "insufficient" => last'.mv.type = "out"
     /\ \A u \in Users :
          (QuantityUpdateStep(u) /\ last'.result = "ok"
             /\ move_req[u].type = "in")
            => inventory_items'[move_req[u].item_id].quantity =
                 inventory_items[move_req[u].item_id].quantity
                   + move_req[u].quantity
  ]_vars

\* C6 (as claimed): when no manual request is in flight and none has failed,
\* the signed sum of an item's movement rows equals its quantity minus its
\* initial quantity.
C6_MovementsSumToQuantity ==
  ((\A u \in Users : move_pc[u] = "idle") /\ ~update_failed)
    => \A i \in DOMAIN inventory_items :
         SignedSum(inventory_movements, i) =
           inventory_items[i].quantity - initial_quantity[i]

\* C7: a quantity update issued by handleMovement never stores a negative
\* quantity, whatever the other user does in between.
C7_ManualWriteNonNegative ==
  [][\A u \in Users :
       (QuantityUpdateStep(u) /\ last'.result = "ok")
         => /\ inventory_items'[move_req[u].item_id].quantity >= 0
            /\ inventory_items'[move_req[u].item_id].quantity =
                 move_req[u].newQuantity
  ]_vars

C7_Witness ==
  /\ last.op = "update_quantity"
  /\ last.result = "ok"
  /\ last.mv.type = "out"
  /\ inventory_items["i1"].quantity = 0
  /\ Len(inventory_movements) > 0

\* C8: a movement turned away for insufficient stock writes nothing: no
\* inventory_movements row, no quantity change, no request left in flight.
C8_RejectedBeforeAnyWrite ==
  [][last'.result = "insufficient" =>
       UNCHANGED <<inventory_movements, inventory_items, move_pc, move_req>>
  ]_vars

C8_Witness ==
  /\ last.op = "movement"
  /\ last.result = "insufficient"
  /\ last.mv.type = "out"
  /\ last.mv.newQuantity < 0
  /\ Len(inventory_movements) > 0

\* C9: when the trigger's decrement or its movement insert fails, the whole
\* transaction_items insert fails with it: no line of the statement is
\* stored, no quantity changes and no movement row is added.
C9_TriggerFailureRejectsInsert ==
  [][\A u \in Users :
       (SubmitItemsStep(u) /\ last'.result = "trigger_error")
         => UNCHANGED <<transaction_items, inventory_items,
                        inventory_movements>>
  ]_vars

C9_Witness ==
  /\ last.op = "insert_items"
  /\ last.result = "trigger_error"
  /\ last.fault = "movement"
  /\ Len(transactions) > 0
  /\ transaction_items = <<>>

\* C10: a submission that sells more of an item than is stored is not
\* rejected; every item's quantity drops by what was sold, below zero for
\* the oversold item.
C10_UnconditionalDecrement ==
  [][\A u \in Users :
       (/\ SubmitItemsStep(u)
        /\ last'.fault = "none"
        /\ \E i \in DOMAIN inventory_items :
             Sold(SubmittedRows(u), i) > inventory_items[i].quantity)
       => /\ last'.result = "ok"
          /\ \A i \in DOMAIN inventory_items :
               inventory_items'[i].quantity =
                 inventory_items[i].quantity - Sold(SubmittedRows(u), i)
          /\ \E i \in DOMAIN inventory_items : inventory_items'[i].quantity < 0
  ]_vars

C10_Witness ==
  /\ last.op = "insert_items"
  /\ last.result = "ok"
  /\ \E i \in DOMAIN inventory_items :
       /\ inventory_items[i].quantity < 0
       /\ inventory_items[i].quantity =
            initial_quantity[i] - Sold(transaction_items, i)

\* the movement row user u's request req writes
MovementRow(u, req) ==
  [item_id |-> req.item_id, type |-> req.type, quantity |-> req.quantity,
   created_by |-> u, notes |-> <<"">>]

\* C11: the manual path writes the inventory_movements row first, leaving the
\* quantity alone, and updates the quantity in a later, separate write; when
\* that update fails the movement row stays recorded and the item's quantity
\* is unchanged.
C11_MovementFirstThenQuantity ==
  [][\A u \in Users :
       /\ MovementInsertStep(u)
            => /\ inventory_movements' =
                    Append(inventory_movements, MovementRow(u, move_req'[u]))
               /\ UNCHANGED inventory_items
       /\ (QuantityUpdateStep(u) /\ last'.result = "backend_error")
            => /\ UNCHANGED <<inventory_items, inventory_movements>>
               /\ \E k \in 1..Len(inventory_movements') :
                    inventory_movements'[k] = MovementRow(u, move_req[u])
  ]_vars

C11_Witness ==
  /\ update_failed
  /\ last.op = "update_quantity"
  /\ last.result = "backend_error"
  /\ Len(inventory_movements) = 1
  /\ inventory_movements[1].item_id = "i1"
  /\ inventory_items["i1"].quantity = initial_quantity["i1"]
  /\ SignedSum(inventory_movements, "i1") # 0

\* the signed change a movement request asks for
Delta(req) == IF req.type = "in" THEN req.quantity ELSE 0 - req.quantity

\* C12: two manual movements on one item race.  A successful quantity update
\* stores the quantity its requester had loaded plus the request's own
\* change, whatever is stored at that moment; and while two users' requests
\* computed from the same loaded quantity are both waiting for their update,
\* both movement rows are already recorded.  The last update therefore wins
\* and the other movement is lost from the quantity.
C12_LastWriterWins ==
  [][\A u \in Users :
       (QuantityUpdateStep(u) /\ last'.result = "ok")
         => /\ inventory_items'[move_req[u].item_id].quantity =
                 selectedItem[u][1].quantity + Delta(move_req[u])
            /\ \A v \in Users \ {u} :
                 (/\ move_pc[v] = "update"
                  /\ move_req[v].item_id = move_req[u].item_id
                  /\ selectedItem[v][1].quantity = selectedItem[u][1].quantity)
                 => /\ \E k \in 1..Len(inventory_movements') :
                         inventory_movements'[k] = MovementRow(u, move_req[u])
                    /\ \E k \in 1..Len(inventory_movements') :
                         inventory_movements'[k] = MovementRow(v, move_req[v])
                    /\ inventory_items'[move_req[u].item_id].quantity
                         = move_req[v].newQuantity - Delta(move_req[v])
                             + Delta(move_req[u])
  ]_vars

\* both users' rows are written, both updates succeeded, and the stored
\* quantity holds the last writer's change only
C12_Witness ==
  /\ \A u \in Users : move_pc[u] = "idle"
  /\ ~update_failed
  /\ Len(inventory_movements) = 2
  /\ inventory_movements[1].item_id = "i1"
  /\ inventory_movements[2].item_id = "i1"
  /\ inventory_movements[1].created_by # inventory_movements[2].created_by
  /\ last.op = "update_quantity"
  /\ last.result = "ok"
  /\ inventory_items["i1"].quantity = initial_quantity["i1"] + Delta(last.mv)
  /\ inventory_items["i1"].quantity
       # initial_quantity["i1"] + SignedSum(inventory_movements, "i1")

\* number of PRODUCT rows of rows that reference item i
ProductRows(rows, i) ==
  LET OnItem(r) == r.type = "PRODUCT" /\ r.inventory_item_id = i
  IN  Len(SelectSeq(rows, OnItem))
\* number of 'out' movement rows of item i
OutRows(mov, i) ==
  LET OutOf(m) == m.type = "out" /\ m.item_id = i
  IN  Len(SelectSeq(mov, OutOf))

\* C13: however the INSERT statements of two users' sales interleave, the
\* committed tables always show whole sales: every item's quantity is its
\* starting quantity minus everything sold from it (S - Q1 - Q2 after two
\* sales), and it has exactly one 'out' movement row per PRODUCT row, for the
\* same total quantity.
C13_ConcurrentSalesSerialize ==
  \A i \in DOMAIN inventory_items :
    /\ inventory_items[i].quantity =
         initial_quantity[i] - Sold(transaction_items, i)
    /\ OutRows(inventory_movements, i) = ProductRows(transaction_items, i)
    /\ SignedSum(inventory_movements, i) = 0 - Sold(transaction_items, i)

\* two users sold the same item; the submission that started second
\* committed first
C13_Witness ==
  /\ Len(transactions) = 2
  /\ transactions[1].created_by # transactions[2].created_by
  /\ Len(transaction_items) = 2
  /\ transaction_items[1].transaction_id = 2
  /\ transaction_items[2].transaction_id = 1
  /\ ProductRows(transaction_items, "i1") = 2
  /\ OutRows(inventory_movements, "i1") = 2
  /\ inventory_items["i1"].quantity =
       initial_quantity["i1"] - transaction_items[1].quantity
         - transaction_items[2].quantity
  /\ \A u \in Users : submit_pc[u] = "idle"

\* the movement rows the trigger wrote, recognised by its note
IsSaleMovement(m) == Len(m.notes) = 2 /\ m.notes[1] = SaleNote(0)[1]

\* C14: after any sequence of transaction-item inserts, through the sales
\* screen or straight through the table API, the automatically created
\* movement rows are as many as the stored PRODUCT rows, and the k-th of them
\* is the movement of the k-th PRODUCT row (its item, its quantity, its
\* transaction): none belongs to a SERVICE row.
C14_OneMovementPerProductRow ==
  LET auto == SelectSeq(inventory_movements, IsSaleMovement)
      sold == SelectSeq(transaction_items, IsProduct)
  IN  /\ Len(auto) = Len(sold)
      /\ \A k \in 1..Len(auto) :
           /\ k <= Len(sold)
           /\ auto[k].type = "out"
           /\ auto[k].item_id = sold[k].inventory_item_id
           /\ auto[k].quantity = sold[k].quantity
           /\ auto[k].notes = SaleNote(sold[k].transaction_id)

C14_Witness ==
  /\ Len(transaction_items) = 2
  /\ transaction_items[1].type = "SERVICE"
  /\ transaction_items[2].type = "PRODUCT"
  /\ Len(inventory_movements) = 1
  /\ IsSaleMovement(inventory_movements[1])

\* C15 (as claimed): inventory_movements only grows; every row once written
\* stays in place unchanged, whatever any user does, operations on
\* inventory_items included.
C15_MovementsAppendOnly ==
  [][/\ Len(inventory_movements') >= Len(inventory_movements)
     /\ SubSeq(inventory_movements', 1, Len(inventory_movements))
          = inventory_movements
  ]_vars

\* C16 (as claimed): once the handleSubmit that created a transaction has
\* finished, with success or with an error, the transaction has at least one
\* transaction_items row.
C16_TransactionsOwnItems ==
  \A tid \in 1..Len(transactions) :
    (\A u \in Users : ~(submit_pc[u] = "items" /\ submit_tx[u].id = tid))
      => \E k \in 1..Len(transaction_items) :
           transaction_items[k].transaction_id = tid

\* C17: an insert into transaction_items that is rejected for the
\* check_item_type constraint leaves nothing behind: no row of the statement
\* (not even the valid rows before the offending one), no quantity change and
\* no movement row; and the rows handleSubmit builds from the form never
\* break the constraint.
C17_CheckViolationLeavesNothing ==
  [][/\ last'.result = "check_violation"
          => UNCHANGED <<transactions, transaction_items, inventory_items,
                         inventory_movements>>
     /\ \A u \in Users :
          SubmitItemsStep(u) => last'.result # "check_violation"
  ]_vars

C17_Witness ==
  /\ last.op = "insert_items"
  /\ last.result = "check_violation"
  /\ Len(transactions) > 0
  /\ transaction_items = <<>>
  /\ inventory_movements = <<>>
  /\ \A i \in DOMAIN inventory_items :
       inventory_items[i].quantity = initial_quantity[i]

\* C18: the actor of every movement row the trigger writes is the creator of
\* the transaction that the sold line references, whoever sent the insert.
C18_ActorIsTransactionCreator ==
  LET auto == SelectSeq(inventory_movements, IsSaleMovement)
      sold == SelectSeq(transaction_items, IsProduct)
  IN  \A k \in 1..Len(auto) :
        /\ k <= Len(sold)
        /\ auto[k].notes = SaleNote(sold[k].transaction_id)
        /\ auto[k].created_by = transactions[sold[k].transaction_id].created_by
        /\ auto[k].created_by \in Users

\* a PRODUCT row sent through the table API for the first transaction after
\* the second transaction's rows were stored
C18_Witness ==
  /\ Len(transactions) = 2
  /\ Len(transaction_items) = 2
  /\ transaction_items[1].transaction_id = 2
  /\ transaction_items[2].transaction_id = 1
  /\ transaction_items[2].type = "PRODUCT"
  /\ Len(inventory_movements) > 0
  /\ inventory_movements[Len(inventory_movements)].notes = SaleNote(1)
  /\ inventory_movements[Len(inventory_movements)].created_by
       = transactions[1].created_by

\* C19: in every state, also after transactions and inventory items were
\* deleted and while inserts race with the deletes, every transaction_items
\* row references a transaction that exists and every inventory_movements
\* row references an inventory item that exists.
C19_RowsHaveParents ==
  /\ \A k \in 1..Len(transaction_items) :
       /\ transaction_items[k].transaction_id \in 1..Len(transactions)
       /\ transactions[transaction_items[k].transaction_id] # DeletedTx
  /\ \A k \in 1..Len(inventory_movements) :
       inventory_movements[k].item_id \in DOMAIN inventory_items

\* the transaction of a submission in flight was deleted, so its rows were
\* refused, while a sold item still has its movement row
C19_Witness ==
  /\ last.op = "insert_items"
  /\ last.result = "fk_violation"
  /\ \E tid \in 1..Len(transactions) : transactions[tid] = DeletedTx
  /\ transaction_items = <<>>
  /\ Len(inventory_movements) > 0

\* C20: a manual movement request whose quantity is not above zero, or that
\* has no selected item, is answered with the validation message and writes
\* nothing to inventory_movements or inventory_items; no other request gets
\* that answer.
C20_MovementNeedsItemAndQuantity ==
  [][last'.op \in {"movement", "insert_movement"} =>
       /\ (last'.mv.quantity <= 0 \/ last'.mv.item_id = NULL)
            => /\ last'.result = "validation"
               /\ UNCHANGED <<inventory_movements, inventory_items, move_pc,
                              move_req>>
       /\ last'.result = "validation"
            => (last'.mv.quantity <= 0 \/ last'.mv.item_id = NULL)
  ]_vars

C20_Witness ==
  /\ last.op = "movement"
  /\ last.result = "validation"
  /\ last.mv.item_id = "i1"
  /\ last.mv.quantity < 0
  /\ last.mv.type = "in"
  /\ Len(inventory_movements) > 0

\* C21: the only thing checked on a transaction_items row itself is the
\* pairing of type and references.  A row sent to the table whose pairing is
\* consistent and whose references exist is stored for every price, quantity
\* and commission, zero and negative ones included, and for a PRODUCT row the
\* trigger takes exactly that quantity from the stock and records it.
C21_OnlyPairingIsValidated ==
  [][last'.op = "api_insert_item" =>
       LET r == last'.mv
           paired ==
             \/ (r.type = "SERVICE" /\ r.service_id # NULL
                   /\ r.inventory_item_id = NULL)
             \/ (r.type = "PRODUCT" /\ r.inventory_item_id # NULL
                   /\ r.service_id = NULL)
           referenced ==
             /\ r.transaction_id \in 1..Len(transactions)
             /\ r.service_id # NULL => r.service_id \in DOMAIN services
             /\ r.inventory_item_id # NULL
                  => r.inventory_item_id \in DOMAIN inventory_items
       IN  (paired /\ referenced)
             => /\ last'.result = "ok"
                /\ transaction_items' = Append(transaction_items, r)
                /\ r.type = "PRODUCT"
                     => /\ inventory_items'[r.inventory_item_id].quantity =
                             inventory_items[r.inventory_item_id].quantity
                               - r.quantity
                        /\ Len(inventory_movements')
                             = Len(inventory_movements) + 1
                        /\ inventory_movements'[Len(inventory_movements')]
                             .quantity = r.quantity
  ]_vars

\* a PRODUCT row with a negative quantity was stored and the stock went up
C21_Witness ==
  /\ last.op = "api_insert_item"
  /\ last.result = "ok"
  /\ last.mv.type = "PRODUCT"
  /\ last.mv.quantity < 0
  /\ last.mv.price < 0
  /\ Len(transaction_items) > 0
  /\ transaction_items[Len(transaction_items)] = last.mv
  /\ inventory_items[last.mv.inventory_item_id].quantity
       > initial_quantity[last.mv.inventory_item_id]

\* ---------------------------------------------------------------- C22
CatalogWrites == {"insert_catalog", "update_catalog", "delete_catalog"}
IsAdmin(u) == [user_id |-> u, role |-> "admin"] \in user_roles

\* C22: the rows of barbers and services change only in a request of a
\* caller user_roles lists as admin; a write request of any other caller
\* leaves both tables as they were, and every caller reads all the rows.
C22_CatalogWritesNeedAdmin ==
  [][/\ (services' # services \/ barbers' # barbers)
          => (last'.op \in CatalogWrites /\ IsAdmin(last'.mv.by))
     /\ (last'.op \in CatalogWrites /\ ~IsAdmin(last'.mv.by))
          => (services' = services /\ barbers' = barbers)
     /\ last'.op = "select_catalog"
          => last'.mv.rows = DOMAIN (IF last'.mv.table = "barbers"
                                     THEN barbers ELSE services)]_vars

\* an operator's update of a barber the admin inserted
C22_Witness ==
  /\ "b2" \in DOMAIN barbers
  /\ last.op = "update_catalog"
  /\ last.mv.by = "u2"
  /\ last.mv.id = "b2"

\* ---------------------------------------------------------------- C23
\* quantity <= minimum-quantity, which no quantity satisfies when the
\* item has no threshold
BelowThreshold(item) ==
  item.min_quantity # NoNumber /\ item.quantity <= item.min_quantity[1]
\* the list of the Inventory screen of u was computed from the stored rows
Loaded(u) ==
  /\ ~load_pending[u]
  /\ DOMAIN items[u] = DOMAIN inventory_items
  /\ \A i \in DOMAIN items[u] : items[u][i] = inventory_items[i].quantity

\* C23: on the Inventory screen and on the Dashboard an item is listed as
\* low stock exactly when its quantity is at most its minimum quantity,
\* whatever the two values are, threshold 0 and no threshold included.
C23_LowStockIsQuantityAtMostMin ==
  /\ \A u \in Users :
       Loaded(u) =>
         lowStockItems[u] =
           {i \in DOMAIN inventory_items : BelowThreshold(inventory_items[i])}
  /\ (last.op = "low_stock" /\ last.result = "ok") =>
       last.mv.lowStock =
         {i \in DOMAIN inventory_items : BelowThreshold(inventory_items[i])}

\* ---------------------------------------------------------------- C24
\* C24: handleAddItem with the SKU field left blank succeeds however many
\* items without a SKU there are, and no two items share a SKU value.
C24_BlankSkuAcceptedSkuUnique ==
  [][last'.op = "insert_inventory_item" =>
       /\ (last'.mv.sku = "" /\ last'.mv.quantity # NoNumber)
            => last'.result = "ok"
       /\ \A i, j \in DOMAIN inventory_items' :
            (i # j /\ inventory_items'[i].sku # "")
              => inventory_items'[i].sku # inventory_items'[j].sku]_vars

\* ---------------------------------------------------------------- C28
\* C28: the Inventory screen and the Dashboard, reading the same rows, list
\* the same items as low stock, for every quantity and every min_quantity,
\* 0 and null included.
C28_ScreensAgreeOnLowStock ==
  \A u \in Users :
    (Loaded(u) /\ last.op = "low_stock" /\ last.result = "ok")
      => last.mv.lowStock = lowStockItems[u]

\* ---------------------------------------------------------------- C25
\* no request is in flight and none of them failed half way
AllCompleted ==
  /\ \A u \in Users : move_pc[u] = "idle" /\ submit_pc[u] = "idle"
  /\ ~update_failed

\* C25: with sales and manual movements on the same items interleaved in
\* any way, once every request has completed without error each item's
\* quantity is its initial quantity plus its 'in' quantities minus its
\* 'out' quantities over all of its movement rows.
C25_LedgerConservedUnderMixedUse ==
  AllCompleted =>
    \A i \in DOMAIN inventory_items :
      inventory_items[i].quantity =
        initial_quantity[i] + SignedSum(inventory_movements, i)

\* ---------------------------------------------------------------- C26
\* C26: every movement row carries the identity of the caller whose request
\* produced it: the user of the Inventory screen on the manual path, and on
\* the trigger path the caller who inserted the transaction_items row,
\* whichever transaction the row was sent for.
C26_MovementAttributedToCaller ==
  [][/\ \A u \in Users :
          MovementInsertStep(u)
            => \A k \in 1..Len(NewMovementRows) :
                 NewMovementRows[k].created_by = u
     /\ last'.op = "insert_items"
          => \A k \in 1..Len(NewMovementRows) :
               NewMovementRows[k].created_by = last'.mv.by]_vars

\* ---------------------------------------------------------------- C27
\* C27: the lines of one submission are sent in one insert and persisted
\* all or none: when a line is rejected no row of the submission is
\* stored, no quantity changes and no movement row is written; when the
\* insert succeeds every line is stored and every PRODUCT line, several
\* lines for one item included, has taken its own quantity off the stock.
C27_SubmissionAllOrNothing ==
  [][\A u \in Users :
       SubmitItemsStep(u) =>
         IF last'.result = "ok"
         THEN /\ transaction_items' = transaction_items \o SubmittedRows(u)
              /\ \A i \in DOMAIN inventory_items :
                   inventory_items'[i].quantity =
                     inventory_items[i].quantity - Sold(SubmittedRows(u), i)
              /\ Len(NewMovementRows)
                   = Len(SelectSeq(SubmittedRows(u), IsProduct))
         ELSE UNCHANGED <<transaction_items, inventory_items,
                          inventory_movements>>
  ]_vars

\* a stored submission with two PRODUCT lines for i1, each taken off
C27_Witness ==
  /\ last.op = "insert_items"
  /\ last.result = "ok"
  /\ Len(transaction_items) = 2
  /\ \A k \in 1..2 :
       /\ transaction_items[k].type = "PRODUCT"
       /\ transaction_items[k].inventory_item_id = "i1"
       /\ transaction_items[k].transaction_id = 1
  /\ inventory_items["i1"].quantity =
       initial_quantity["i1"] - transaction_items[1].quantity
         - transaction_items[2].quantity
  /\ Len(inventory_movements) = 2

\* ---------------------------------------------------------------- C29
RECURSIVE ItemsTotalFrom(_, _, _)
ItemsTotalFrom(rows, tid, k) ==
  IF k > Len(rows) THEN 0
  ELSE (IF rows[k].transaction_id = tid
        THEN rows[k].price * rows[k].quantity ELSE 0)
       + ItemsTotalFrom(rows, tid, k + 1)
\* the sum of price * quantity over the stored items of transaction tid
ItemsTotal(tid) == ItemsTotalFrom(transaction_items, tid, 1)
HasItems(tid) ==
  \E k \in 1..Len(transaction_items) :
    transaction_items[k].transaction_id = tid

\* C29: the stored total of every transaction whose submission succeeded,
\* that is whose items were stored, is the sum of price * quantity over
\* its stored transaction_items rows.
C29_TotalIsSumOfItems ==
  \A tid \in 1..Len(transactions) :
    HasItems(tid) => transactions[tid].total = ItemsTotal(tid)

\* a stored submission of two lines with different quantities
C29_Witness ==
  /\ last.op = "insert_items"
  /\ last.result = "ok"
  /\ Len(transaction_items) = 2
  /\ transaction_items[1].transaction_id = 1
  /\ transaction_items[2].transaction_id = 1
  /\ transaction_items[1].quantity = 1
  /\ transaction_items[2].quantity = MaxQty
  /\ transactions[1].total =
       transaction_items[1].price + MaxQty * transaction_items[2].price

\* ---------------------------------------------------------------- C30
\* the form handleSubmit was called with misses the barber, the payment
\* method or the items
Incomplete(form) ==
  ~form.selectedBarberId \/ ~form.selectedPaymentMethodId \/ form.items = 0

====
